---------------------------- MODULE Spec2Model ----------------------------
(***************************************************************************)
(* Kropki Sudoku solver (solver.py): the 9x9 board of Variables, the       *)
(* initial sweep of parse_file, forward checking with its change record,   *)
(* the MRV/degree variable selection and the recursive backtracking        *)
(* search, modelled as a state machine with an explicit call stack.        *)
(*                                                                         *)
(* Values and dot types are the integers the code obtains with int():      *)
(* value 0 is '0' (unassigned), dot 0 is '0' (no dot), 1 white, 2 black.   *)
(* A domain, a 0/1 list of length 9 in the code, is the set of the digits  *)
(* whose entry is 1.  Positions are <<i, j>>, 0-based as in the code.      *)
(***************************************************************************)
EXTENDS Integers, Sequences, FiniteSets, TLC

NUM_ROWS == 9
NUM_COLS == 9
\* len(DOMAIN): the number of digits of a domain
NUM_VALS == 9
\* the side of a box, the 3 of box_indexes
BOX == 3

Rows == 0 .. (NUM_ROWS - 1)
Cols == 0 .. (NUM_COLS - 1)
Pos == Rows \X Cols
Digits == 1 .. NUM_VALS
\* the constant DOMAIN = [1, 1, 1, 1, 1, 1, 1, 1, 1]: every digit available
FULL_DOMAIN == Digits

----------------------------------------------------------------------------
(* The inputs: a solved grid with a region of unfilled cells, of which up  *)
(* to MaxClues are given after all, dot markers on a few edges of the      *)
(* region, and possibly one clue overwritten by another digit.             *)

MaxClues == 1

Base ==
  << <<1, 2, 3, 4, 5, 6, 7, 8, 9>>,
     <<4, 5, 6, 7, 8, 9, 1, 2, 3>>,
     <<7, 8, 9, 1, 2, 3, 4, 5, 6>>,
     <<2, 6, 1, 8, 9, 4, 3, 7, 5>>,
     <<8, 9, 4, 5, 3, 7, 2, 6, 1>>,
     <<3, 7, 5, 2, 6, 1, 9, 4, 8>>,
     <<6, 1, 2, 3, 7, 8, 5, 9, 4>>,
     <<9, 4, 7, 6, 1, 5, 8, 3, 2>>,
     <<5, 3, 8, 9, 4, 2, 6, 1, 7>> >>

\* the unfilled region: rows 5 to 7, columns 5 to 8
HoleCand == (5 .. 7) \X (5 .. 8)

\* horizontal edges <<i, j>> -- <<i, j+1>> and vertical edges <<i, j>> -- <<i+1, j>>
\* that may carry a dot
HEdges == { <<6, 6>>, <<7, 7>> }
VEdges == { <<6, 8>> }
DotTypes == 0 .. 2

\* a clue overwritten: none, or a second 1 in row 0
NoOverride == << <<0, 0>>, 0 >>
Overrides == { NoOverride, << <<0, 1>>, 1 >> }

----------------------------------------------------------------------------
(* Variable *)

Variable(value, up, down, left, right) ==
  [value |-> value, domain |-> FULL_DOMAIN, up |-> up, down |-> down,
   left |-> left, right |-> right]

assigned(var) == var.value # 0

remaining_value_count(var) == Cardinality(var.domain)

\* the board as parse_file has it after reading the file, before its sweep
ReadBoard(holes, hd, vd, ov) ==
  [p \in Pos |->
     LET i == p[1]
         j == p[2]
         val == IF ov[2] # 0 /\ ov[1] = p THEN ov[2]
                ELSE IF p \in holes THEN 0
                ELSE Base[i + 1][j + 1]
     IN  Variable(val,
                  IF i > 0 /\ <<i - 1, j>> \in DOMAIN vd THEN vd[<<i - 1, j>>] ELSE 0,
                  IF <<i, j>> \in DOMAIN vd THEN vd[<<i, j>>] ELSE 0,
                  IF j > 0 /\ <<i, j - 1>> \in DOMAIN hd THEN hd[<<i, j - 1>>] ELSE 0,
                  IF <<i, j>> \in DOMAIN hd THEN hd[<<i, j>>] ELSE 0)]

----------------------------------------------------------------------------
(* box_indexes, dot_remains *)

box_indexes(i, j) ==
  LET istart == (i \div BOX) * BOX
      jstart == (j \div BOX) * BOX
  IN  [n \in 1 .. (BOX * BOX) |->
         <<istart + ((n - 1) \div BOX), jstart + ((n - 1) % BOX)>>]

\* faulty variant: the white dot keeps only the digit above valint
dot_remains_white_above(dot_type, valint) ==
  IF dot_type = 1
  THEN IF valint = 9 THEN {valint - 1} ELSE {valint + 1}
  ELSE IF valint % 2 = 0 /\ valint <= 4 THEN {valint \div 2, valint * 2}
       ELSE IF valint % 2 = 0 /\ valint > 4 THEN {valint \div 2}
       ELSE IF valint % 2 = 1 /\ valint <= 3 THEN {valint * 2}
       ELSE {}

\* faulty variant: the black dot doubles only up to 2, so 4 loses its 8
dot_remains_black_bound(dot_type, valint) ==
  IF dot_type = 1
  THEN IF valint = 1 THEN {valint + 1}
       ELSE IF valint = 9 THEN {valint - 1}
       ELSE {valint - 1, valint + 1}
  ELSE IF valint % 2 = 0 /\ valint <= 2 THEN {valint \div 2, valint * 2}
       ELSE IF valint % 2 = 0 /\ valint > 2 THEN {valint \div 2}
       ELSE IF valint % 2 = 1 /\ valint <= 3 THEN {valint * 2}
       ELSE {}

dot_remains(dot_type, valint) ==
  IF dot_type = 1
  THEN IF valint = 1 THEN {valint + 1}
       ELSE IF valint = 9 THEN {valint - 1}
       ELSE {valint - 1, valint + 1}
  ELSE IF valint % 2 = 0 /\ valint <= 4 THEN {valint \div 2, valint * 2}
       ELSE IF valint % 2 = 0 /\ valint > 4 THEN {valint \div 2}
       ELSE IF valint % 2 = 1 /\ valint <= 3 THEN {valint * 2}
       ELSE {}

----------------------------------------------------------------------------
(* The three loops every propagation runs, in their order: the row of      *)
(* (ivar, jvar) but its own column, the column but its own row, the box    *)
(* but its own row and column; an assigned cell is skipped.                *)

RowLoop(ivar, jvar) ==
  SelectSeq([k \in 1 .. NUM_COLS |-> <<ivar, k - 1>>], LAMBDA p : p[2] # jvar)

ColLoop(ivar, jvar) ==
  SelectSeq([k \in 1 .. NUM_ROWS |-> <<k - 1, jvar>>], LAMBDA p : p[1] # ivar)

BoxLoop(ivar, jvar) ==
  SelectSeq(box_indexes(ivar, jvar), LAMBDA p : ~(p[1] = ivar \/ p[2] = jvar))

PeerLoops(ivar, jvar) ==
  RowLoop(ivar, jvar) \o ColLoop(ivar, jvar) \o BoxLoop(ivar, jvar)

UnassignedPeers(board, ivar, jvar) ==
  SelectSeq(PeerLoops(ivar, jvar), LAMBDA p : ~assigned(board[p]))

\* the four dot edges of a cell in the order the code visits them:
\* up, down, left, right, each with the cell across the edge
DotEdges(board, ivar, jvar) ==
  LET var == board[<<ivar, jvar>>]
  IN  << [dot |-> var.up, at |-> <<ivar - 1, jvar>>],
         [dot |-> var.down, at |-> <<ivar + 1, jvar>>],
         [dot |-> var.left, at |-> <<ivar, jvar - 1>>],
         [dot |-> var.right, at |-> <<ivar, jvar + 1>>] >>

\* for k in range(len(domain)): if k + 1 not in remain: domain[k] = 0
KeepRemain(domain, remain) == {d \in domain : d \in remain}

----------------------------------------------------------------------------
(* update_neighbors: the initial sweep's step for one pre-filled cell *)

RECURSIVE un_dots(_, _, _, _, _)
un_dots(board, ivar, jvar, n, valint) ==
  IF n > 4 THEN board
  ELSE LET e == DotEdges(board, ivar, jvar)[n]
       IN  IF e.dot # 0 /\ ~assigned(board[e.at])
           THEN un_dots([board EXCEPT ![e.at].domain =
                           KeepRemain(@, dot_remains(e.dot, valint))],
                        ivar, jvar, n + 1, valint)
           ELSE un_dots(board, ivar, jvar, n + 1, valint)

RECURSIVE un_positional(_, _, _, _)
un_positional(board, peers, n, valint) ==
  IF n > Len(peers) THEN board
  ELSE un_positional([board EXCEPT ![peers[n]].domain = @ \ {valint}],
                     peers, n + 1, valint)

\* faulty variant: the dot constraint neighbors are not updated
update_neighbors_no_dots(board, ivar, jvar) ==
  un_positional(board, UnassignedPeers(board, ivar, jvar), 1,
                board[<<ivar, jvar>>].value)

update_neighbors(board, ivar, jvar) ==
  LET valint == board[<<ivar, jvar>>].value
  IN  un_dots(un_positional(board, UnassignedPeers(board, ivar, jvar), 1, valint),
              ivar, jvar, 1, valint)

\* parse_file's closing loops: update_neighbors for every assigned cell, row-major
RowMajor == [n \in 1 .. (NUM_ROWS * NUM_COLS) |->
               <<(n - 1) \div NUM_COLS, (n - 1) % NUM_COLS>>]

RECURSIVE sweep(_, _)
sweep(board, n) ==
  IF n > Len(RowMajor) THEN board
  ELSE LET p == RowMajor[n]
       IN  IF ~assigned(board[p]) THEN sweep(board, n + 1)
           ELSE sweep(update_neighbors(board, p[1], p[2]), n + 1)

parse_file(raw) == sweep(raw, 1)

----------------------------------------------------------------------------
(* forward_check: the change record, then the pruning with its early       *)
(* return at the first empty domain                                        *)

\* faulty variant: the cell across a dot is pruned whether assigned or not
RECURSIVE fc_dots_assigned(_, _, _, _, _)
fc_dots_assigned(board, ivar, jvar, n, valint) ==
  IF n > 4 THEN [consistent |-> TRUE, board |-> board]
  ELSE LET e == DotEdges(board, ivar, jvar)[n]
       IN  IF e.dot # 0
           THEN LET b1 == [board EXCEPT ![e.at].domain =
                             KeepRemain(@, dot_remains(e.dot, valint))]
                IN  IF remaining_value_count(b1[e.at]) = 0
                    THEN [consistent |-> FALSE, board |-> b1]
                    ELSE fc_dots_assigned(b1, ivar, jvar, n + 1, valint)
           ELSE fc_dots_assigned(board, ivar, jvar, n + 1, valint)

RECURSIVE fc_dots(_, _, _, _, _)
fc_dots(board, ivar, jvar, n, valint) ==
  IF n > 4 THEN [consistent |-> TRUE, board |-> board]
  ELSE LET e == DotEdges(board, ivar, jvar)[n]
       IN  IF e.dot # 0 /\ ~assigned(board[e.at])
           THEN LET b1 == [board EXCEPT ![e.at].domain =
                             KeepRemain(@, dot_remains(e.dot, valint))]
                IN  IF remaining_value_count(b1[e.at]) = 0
                    THEN [consistent |-> FALSE, board |-> b1]
                    ELSE fc_dots(b1, ivar, jvar, n + 1, valint)
           ELSE fc_dots(board, ivar, jvar, n + 1, valint)

\* faulty variant: no early return from the positional loops
RECURSIVE fc_positional_on(_, _, _, _, _, _)
fc_positional_on(board, ivar, jvar, peers, n, valint) ==
  IF n > Len(peers)
  THEN IF \E k \in 1 .. Len(peers) : remaining_value_count(board[peers[k]]) = 0
       THEN [consistent |-> FALSE, board |-> board]
       ELSE fc_dots(board, ivar, jvar, 1, valint)
  ELSE fc_positional_on([board EXCEPT ![peers[n]].domain = @ \ {valint}],
                        ivar, jvar, peers, n + 1, valint)

RECURSIVE fc_positional(_, _, _, _, _, _)
fc_positional(board, ivar, jvar, peers, n, valint) ==
  IF n > Len(peers) THEN fc_dots(board, ivar, jvar, 1, valint)
  ELSE LET b1 == [board EXCEPT ![peers[n]].domain = @ \ {valint}]
       IN  IF remaining_value_count(b1[peers[n]]) = 0
           THEN [consistent |-> FALSE, board |-> b1]
           ELSE fc_positional(b1, ivar, jvar, peers, n + 1, valint)

\* faulty variant: the box loop of the saving pass is missing
save_original_no_box(board, ivar, jvar) ==
  LET peers == SelectSeq(RowLoop(ivar, jvar) \o ColLoop(ivar, jvar),
                         LAMBDA p : ~assigned(board[p]))
  IN  [n \in 1 .. Len(peers) |-> [pos |-> peers[n], dom |-> board[peers[n]].domain]]

\* saves original inferences: [(k, l), copy of the domain] per unassigned peer
save_original(board, ivar, jvar) ==
  LET peers == UnassignedPeers(board, ivar, jvar)
  IN  [n \in 1 .. Len(peers) |-> [pos |-> peers[n], dom |-> board[peers[n]].domain]]

forward_check(board, ivar, jvar) ==
  LET original == save_original(board, ivar, jvar)
      valint == board[<<ivar, jvar>>].value
      r == fc_positional(board, ivar, jvar, UnassignedPeers(board, ivar, jvar),
                         1, valint)
  IN  [consistent |-> r.consistent, board |-> r.board, original |-> original]

\* faulty variant: nothing is restored
remove_inferences_nothing(board, original) == board

\* faulty variant: the first entry of the record is not reinstated
remove_inferences_skip_first(board, original) ==
  [p \in Pos |->
     IF \E n \in 2 .. Len(original) : original[n].pos = p
     THEN [board[p] EXCEPT !.domain =
             original[CHOOSE n \in 2 .. Len(original) : original[n].pos = p].dom]
     ELSE board[p]]

RECURSIVE remove_inferences(_, _)
remove_inferences(board, original) ==
  IF original = <<>> THEN board
  ELSE remove_inferences([board EXCEPT ![Head(original).pos].domain =
                            Head(original).dom],
                         Tail(original))

----------------------------------------------------------------------------
(* assignment_complete, unassigned_neighbors_count, select_variable *)

\* faulty variant: True is returned after the first row
assignment_complete_first_row(board) == \A j \in Cols : assigned(board[<<0, j>>])

assignment_complete(board) == \A p \in Pos : assigned(board[p])

unassigned_neighbors_count(board, i, j) == Len(UnassignedPeers(board, i, j))

\* math.inf: above every remaining_value_count
INF == NUM_VALS + 1

\* selected = None
None == <<>>

\* faulty variant: the comparisons are turned around, the cells with the
\* most remaining values are kept
RECURSIVE mrv_scan_max(_, _, _, _)
mrv_scan_max(board, n, curr_mrv, mrv) ==
  IF n > Len(RowMajor) THEN mrv
  ELSE LET p == RowMajor[n]
           remain_val == remaining_value_count(board[p])
       IN  IF assigned(board[p]) THEN mrv_scan_max(board, n + 1, curr_mrv, mrv)
           ELSE IF curr_mrv # INF /\ remain_val < curr_mrv
                THEN mrv_scan_max(board, n + 1, curr_mrv, mrv)
           ELSE IF remain_val = curr_mrv
                THEN mrv_scan_max(board, n + 1, curr_mrv, Append(mrv, p))
           ELSE mrv_scan_max(board, n + 1, remain_val, <<p>>)

RECURSIVE mrv_scan(_, _, _, _)
mrv_scan(board, n, curr_mrv, mrv) ==
  IF n > Len(RowMajor) THEN mrv
  ELSE LET p == RowMajor[n]
           remain_val == remaining_value_count(board[p])
       IN  IF assigned(board[p]) THEN mrv_scan(board, n + 1, curr_mrv, mrv)
           ELSE IF remain_val > curr_mrv THEN mrv_scan(board, n + 1, curr_mrv, mrv)
           ELSE IF remain_val = curr_mrv
                THEN mrv_scan(board, n + 1, curr_mrv, Append(mrv, p))
           ELSE mrv_scan(board, n + 1, remain_val, <<p>>)

\* faulty variant: a later cell of equal degree replaces the selected one
RECURSIVE degree_scan_last(_, _, _, _, _)
degree_scan_last(board, mrv, n, selected, selected_deg) ==
  IF n > Len(mrv) THEN selected
  ELSE LET degree == unassigned_neighbors_count(board, mrv[n][1], mrv[n][2])
       IN  IF selected = None THEN degree_scan_last(board, mrv, n + 1, mrv[n], degree)
           ELSE IF degree >= selected_deg
                THEN degree_scan_last(board, mrv, n + 1, mrv[n], degree)
           ELSE degree_scan_last(board, mrv, n + 1, selected, selected_deg)

RECURSIVE degree_scan(_, _, _, _, _)
degree_scan(board, mrv, n, selected, selected_deg) ==
  IF n > Len(mrv) THEN selected
  ELSE LET degree == unassigned_neighbors_count(board, mrv[n][1], mrv[n][2])
       IN  IF selected = None THEN degree_scan(board, mrv, n + 1, mrv[n], degree)
           ELSE IF degree > selected_deg
                THEN degree_scan(board, mrv, n + 1, mrv[n], degree)
           ELSE degree_scan(board, mrv, n + 1, selected, selected_deg)

select_variable(board) ==
  degree_scan(board, mrv_scan(board, 1, INF, <<>>), 1, None, 0)

\* faulty variant: the loop does not move past the value it has just tried
next_val_again(domain, val) ==
  IF \E v \in domain : v >= val
  THEN CHOOSE v \in domain : v >= val /\ \A w \in domain : w >= val => v <= w
  ELSE 0

\* faulty variant: the loop steps over a candidate when a later one exists
next_val_skip(domain, val) ==
  LET later == {v \in domain : v > val}
      first == CHOOSE v \in later : \A w \in later : v <= w
  IN  IF later = {} THEN 0
      ELSE IF later = {first} THEN first
      ELSE CHOOSE v \in later \ {first} : \A w \in later \ {first} : v <= w

\* for val in range(1, len(var.domain) + 1): if not var.domain[val-1]: continue
\* the next value of the loop after val, 0 when the loop is over
next_val(domain, val) ==
  IF \E v \in domain : v > val
  THEN CHOOSE v \in domain : v > val /\ \A w \in domain : w > val => v <= w
  ELSE 0

----------------------------------------------------------------------------
(* backtracking_search as the function the code defines: backtrack with    *)
(* its value loop, returning the result (True for the board, or False)     *)
(* and the board as the call leaves it                                     *)

RECURSIVE backtrack(_)
RECURSIVE value_loop(_, _, _, _)

\* the for loop of backtrack from the value after val on
value_loop(board, ivar, jvar, val) ==
  LET cell == <<ivar, jvar>>
      v == next_val(board[cell].domain, val)
  IN  IF v = 0 THEN [result |-> FALSE, board |-> board]
      ELSE LET fc == forward_check([board EXCEPT ![cell].value = v], ivar, jvar)
               r == IF fc.consistent THEN backtrack(fc.board)
                    ELSE [result |-> FALSE, board |-> fc.board]
           IN  IF r.result THEN r
               ELSE value_loop([remove_inferences(r.board, fc.original)
                                  EXCEPT ![cell].value = 0],
                               ivar, jvar, v)

backtrack(board) ==
  IF assignment_complete(board) THEN [result |-> TRUE, board |-> board]
  ELSE LET sel == select_variable(board)
       IN  value_loop(board, sel[1], sel[2], 0)

backtracking_search(board) == backtrack(board)

----------------------------------------------------------------------------
(* The state: the board, the stack of backtrack calls that have selected   *)
(* their variable (cell, loop value, forward_check's two results), the     *)
(* position in the code, and what backtracking_search returned.            *)
(* start is the board parse_file returned.                                 *)

VARIABLES board, start, stack, pc, result

vars == <<board, start, stack, pc, result>>

Top == stack[Len(stack)]
Pop == SubSeq(stack, 1, Len(stack) - 1)

Init ==
  /\ \E filled \in SUBSET HoleCand, hd \in [HEdges -> DotTypes],
        vd \in [VEdges -> DotTypes], ov \in Overrides :
       /\ Cardinality(filled) <= MaxClues
       /\ board = ReadBoard(HoleCand \ filled, hd, vd, ov)
  /\ start = board
  /\ stack = <<>>
  /\ pc = "parse"
  /\ result = "none"

\* parse_file, lines 91-98: the sweep over the pre-filled cells
Sweep ==
  /\ pc = "parse"
  /\ board' = parse_file(board)
  /\ start' = board'
  /\ pc' = "enter"
  /\ UNCHANGED <<stack, result>>

\* backtrack, lines 431-432: every cell is assigned, the board is returned
ReturnBoard ==
  /\ pc = "enter"
  /\ assignment_complete(board)
  /\ result' = "board"
  /\ pc' = IF stack = <<>> THEN "done" ELSE "unwind"
  /\ UNCHANGED <<board, start, stack>>

\* backtrack, lines 433-434: the variable of this call
SelectVariable ==
  /\ pc = "enter"
  /\ ~assignment_complete(board)
  /\ LET sel == select_variable(board)
     IN  stack' = Append(stack, [ivar |-> sel[1], jvar |-> sel[2], val |-> 0,
                                 consistent |-> TRUE, original |-> <<>>])
  /\ pc' = "loop"
  /\ UNCHANGED <<board, start, result>>

\* backtrack, lines 435-441: the next value of the domain is assigned and
\* forward checked; a consistent board is searched further
TryValue ==
  /\ pc = "loop"
  /\ LET cell == <<Top.ivar, Top.jvar>>
         val == next_val(board[cell].domain, Top.val)
     IN  /\ val # 0
         /\ LET fc == forward_check([board EXCEPT ![cell].value = val],
                                    Top.ivar, Top.jvar)
            IN  /\ board' = fc.board
                /\ stack' = [stack EXCEPT ![Len(stack)] =
                               [@ EXCEPT !.val = val,
                                         !.consistent = fc.consistent,
                                         !.original = fc.original]]
                /\ pc' = IF fc.consistent THEN "enter" ELSE "undo"
  /\ UNCHANGED <<start, result>>

\* faulty variant: the value is not reset
Undo_no_reset ==
  /\ pc = "undo"
  /\ board' = remove_inferences(board, Top.original)
  /\ pc' = "loop"
  /\ UNCHANGED <<start, stack, result>>

\* backtrack, lines 443-444: the inferences are removed and the value reset
Undo ==
  /\ pc = "undo"
  /\ board' = [remove_inferences(board, Top.original)
                 EXCEPT ![<<Top.ivar, Top.jvar>>].value = 0]
  /\ pc' = "loop"
  /\ UNCHANGED <<start, stack, result>>

\* backtrack, line 445: the loop is over, the call returns False; its caller
\* goes on at line 443, and backtracking_search returns it at line 447
ReturnFalse ==
  /\ pc = "loop"
  /\ next_val(board[<<Top.ivar, Top.jvar>>].domain, Top.val) = 0
  /\ stack' = Pop
  /\ IF Len(stack) = 1
     THEN pc' = "done" /\ result' = "False"
     ELSE pc' = "undo" /\ result' = result
  /\ UNCHANGED <<board, start>>

\* backtrack, line 442: if result: return result
ReturnResult ==
  /\ pc = "unwind"
  /\ stack' = Pop
  /\ pc' = IF Len(stack) = 1 THEN "done" ELSE "unwind"
  /\ UNCHANGED <<board, start, result>>

Next ==
  \/ Sweep
  \/ ReturnBoard
  \/ SelectVariable
  \/ TryValue
  \/ Undo
  \/ ReturnFalse
  \/ ReturnResult

Spec == Init /\ [][Next]_vars

----------------------------------------------------------------------------
(* The search with select_variable replaced by any rule that returns an    *)
(* unassigned cell: each call takes any unassigned cell.  Its inputs are   *)
(* the puzzles with the unfilled region AnyHoleCand.                       *)

\* the unfilled region: rows 6 and 7, columns 5 to 7
AnyHoleCand == (6 .. 7) \X (5 .. 7)

InitAny ==
  /\ \E filled \in SUBSET AnyHoleCand, hd \in [HEdges -> DotTypes],
        vd \in [VEdges -> DotTypes], ov \in Overrides :
       /\ Cardinality(filled) <= MaxClues
       /\ board = ReadBoard(AnyHoleCand \ filled, hd, vd, ov)
  /\ start = board
  /\ stack = <<>>
  /\ pc = "parse"
  /\ result = "none"

\* backtrack, lines 433-434, with some unassigned cell for select_variable's
SelectAny ==
  /\ pc = "enter"
  /\ ~assignment_complete(board)
  /\ \E sel \in {p \in Pos : ~assigned(board[p])} :
       stack' = Append(stack, [ivar |-> sel[1], jvar |-> sel[2], val |-> 0,
                               consistent |-> TRUE, original |-> <<>>])
  /\ pc' = "loop"
  /\ UNCHANGED <<board, start, result>>

NextAny ==
  \/ Sweep
  \/ ReturnBoard
  \/ SelectAny
  \/ TryValue
  \/ Undo
  \/ ReturnFalse
  \/ ReturnResult

AnySpec == InitAny /\ [][NextAny]_vars

----------------------------------------------------------------------------
(* What the puzzle asks, stated apart from the solver *)

SameUnit(p, q) ==
  /\ p # q
  /\ \/ p[1] = q[1]
     \/ p[2] = q[2]
     \/ (p[1] \div BOX = q[1] \div BOX /\ p[2] \div BOX = q[2] \div BOX)

\* the cells sharing a row, column or box with each cell
PeersOf == [p \in Pos |-> {q \in Pos : SameUnit(p, q)}]

Peers(p) == PeersOf[p]

\* white: the two values differ by exactly 1; black: one is double the other
Related(dot, a, b) ==
  IF dot = 1 THEN a - b = 1 \/ b - a = 1
  ELSE a = 2 * b \/ b = 2 * a

\* the dot-marked edges of cell p: the dot and the cell across it
DotNeighbours(b, p) ==
  {e \in { [dot |-> b[p].up, at |-> <<p[1] - 1, p[2]>>],
           [dot |-> b[p].down, at |-> <<p[1] + 1, p[2]>>],
           [dot |-> b[p].left, at |-> <<p[1], p[2] - 1>>],
           [dot |-> b[p].right, at |-> <<p[1], p[2] + 1>>] } : e.dot # 0}

\* no two assigned cells of a row, column or box hold the same value, and
\* every dot between two assigned cells holds
Consistent(b) ==
  /\ \A p \in Pos : assigned(b[p]) =>
       \A q \in Peers(p) : assigned(b[q]) => b[q].value # b[p].value
  /\ \A p \in Pos : assigned(b[p]) =>
       \A e \in DotNeighbours(b, p) :
         assigned(b[e.at]) => Related(e.dot, b[p].value, b[e.at].value)

GridValid(b) ==
  /\ \A p \in Pos : b[p].value \in Digits
  /\ Consistent(b)

Unassigned(b) == {p \in Pos : ~assigned(b[p])}

\* the digits consistent with the assigned cells around p: no assigned cell
\* of the row, column or box holds the digit, and it is related to the value
\* of every assigned cell across a dot
ConsistentDigits(b, p) ==
  {d \in Digits :
     /\ \A q \in Peers(p) : assigned(b[q]) => b[q].value # d
     /\ \A e \in DotNeighbours(b, p) :
          assigned(b[e.at]) => Related(e.dot, b[e.at].value, d)}

\* every way to fill the unassigned cells, one after the other, with a digit
\* consistent with the cells assigned before
RECURSIVE Fills(_)
Fills(b) ==
  IF Unassigned(b) = {} THEN {b}
  ELSE LET p == CHOOSE q \in Unassigned(b) : TRUE
       IN  UNION {Fills([b EXCEPT ![p].value = v]) : v \in ConsistentDigits(b, p)}

\* the valid complete grids that extend the assigned cells of b
Solutions(b) == {g \in Fills(b) : GridValid(g)}

----------------------------------------------------------------------------
(* C1: whenever backtracking_search returns the board as solved, no two    *)
(* cells of a row, column or box hold the same value and every dot-marked  *)
(* pair satisfies its relation, whatever the given clues and dots.         *)
C1_SolvedGridValid ==
  (pc = "done" /\ result = "board") => GridValid(board)

(* C2: for a puzzle whose given clues contradict each other the search     *)
(* returns False; it never returns the grid as solved.                     *)
C2_ContradictoryCluesFail ==
  (pc = "done" /\ ~Consistent(start)) => result = "False"

(* C3: backtracking_search returns False only if no complete assignment   *)
(* of digits to the unfilled cells satisfies, with the given clues, every  *)
(* row, column, box and dot constraint.                                    *)
C3_FailureOnlyIfUnsolvable ==
  (pc = "done" /\ result = "False") => Solutions(start) = {}

\* a search that failed after trying values: the clues are consistent and
\* every open cell had candidates after the sweep
C3_Witness ==
  /\ pc = "done"
  /\ result = "False"
  /\ Consistent(start)
  /\ \A p \in Unassigned(start) : start[p].domain # {}

(* C5: at entry to every backtrack call, for every valid complete grid     *)
(* that extends the current partial assignment, the domain of each         *)
(* unassigned cell still holds the digit that grid gives the cell.         *)
C5_PruningKeepsSolutions ==
  pc = "enter" =>
    \A g \in Solutions(board) :
      \A p \in Unassigned(board) : g[p].value \in board[p].domain

\* an entry below the root where a valid extension exists and pruning has
\* removed candidates from an open cell
C5_Witness ==
  /\ pc = "enter"
  /\ stack # <<>>
  /\ Solutions(board) # {}
  /\ \E p \in Unassigned(board) : board[p].domain # start[p].domain

(* C4: in any board reached during the search, for any unassigned cell    *)
(* and any candidate value of it: setting the value, running forward_check *)
(* (consistent or not), remove_inferences with the returned record and     *)
(* resetting the cell leaves every cell's domain and value as they were.   *)
AssignAndCheck(b, p, v) == forward_check([b EXCEPT ![p].value = v], p[1], p[2])

RoundTrip(b, p, v) ==
  LET fc == AssignAndCheck(b, p, v)
  IN  [remove_inferences(fc.board, fc.original) EXCEPT ![p].value = 0]

\* C4: in every board the search reaches (each is the board of a call at its
\* value loop or the board a forward_check has left), assigning any candidate of any
\* unassigned cell, forward_check, remove_inferences and the reset give the
\* board back
C4_RollbackExact ==
  pc \in {"loop", "undo"} =>
    \A p \in Unassigned(board) :
      \A v \in board[p].domain : RoundTrip(board, p, v) = board

\* the search has just undone a forward_check that wiped a domain out after
\* pruning other cells, and a candidate whose check succeeds is open too
C4_Witness ==
  /\ pc = "loop"
  /\ Top.val # 0
  /\ ~Top.consistent
  /\ LET fc == AssignAndCheck(board, <<Top.ivar, Top.jvar>>, Top.val)
     IN  /\ ~fc.consistent
         /\ Cardinality({q \in Pos : fc.board[q].domain # board[q].domain}) > 1
  /\ \E p \in Unassigned(board) : \E v \in board[p].domain :
       /\ AssignAndCheck(board, p, v).consistent
       /\ AssignAndCheck(board, p, v).board # [board EXCEPT ![p].value = v]

(* C6: backtracking_search terminates.  Every step of the program moves   *)
(* the search strictly forward in the depth-first order of its positions   *)
(* (the values of the open calls, then the place in the code), these       *)
(* positions are finitely many, and the program only stops with the        *)
(* search returned: Solved or Exhausted is reached, no run loops forever.  *)
PlaceRank(place) ==
  CASE place = "parse" -> 0 - 2
    [] place = "enter" -> 0 - 1
    [] place = "undo" -> 10
    [] place = "loop" -> 11
    [] place = "unwind" -> 12
    [] place = "done" -> 13

SearchPosition(st, place) ==
  [n \in 1 .. Len(st) |-> st[n].val] \o <<PlaceRank(place)>>

\* lexicographic order, decided at the first index where s and t differ
Precedes(s, t) ==
  \E i \in 1 .. Len(s) :
    /\ i <= Len(t)
    /\ s[i] < t[i]
    /\ \A k \in 1 .. (i - 1) : s[k] = t[k]

\* C6: every step advances the search position, which stays within finitely
\* many positions, and the code places that go on have an open call
C6_Terminates ==
  [][/\ Precedes(SearchPosition(stack, pc), SearchPosition(stack', pc'))
     /\ Len(stack') <= NUM_ROWS * NUM_COLS
     /\ \A n \in 1 .. Len(stack') : stack'[n].val \in 0 .. NUM_VALS
     /\ pc' \in {"undo", "loop", "unwind"} => stack' # <<>>]_vars

\* a search that ended Exhausted after trying values: no open cell was
\* without candidates after the sweep, and some had several
C6_Witness ==
  /\ pc = "done"
  /\ result = "False"
  /\ \A p \in Unassigned(start) : start[p].domain # {}
  /\ Cardinality({p \in Unassigned(start) : Cardinality(start[p].domain) >= 2}) >= 2

(* C8: for a white or black dot and a neighbour value v in 1..9,          *)
(* dot_remains returns exactly the digits w in 1..9 related to v: white,   *)
(* w = v-1 or w = v+1; black, w = 2v or v = 2w; for black and v in         *)
(* {5, 7, 9} it returns the empty set.  So at entry to every backtrack     *)
(* call an unassigned cell across a dot from an assigned cell holds only   *)
(* related digits, none at all across a black dot from a 5, 7 or 9.        *)
C8_DotRemainsExact ==
  /\ \A dot \in {1, 2} : \A v \in Digits :
       dot_remains(dot, v) = {w \in Digits : Related(dot, v, w)}
  /\ \A v \in {5, 7, 9} : dot_remains(2, v) = {}
  /\ pc = "enter" =>
       \A p \in Pos : assigned(board[p]) =>
         \A e \in DotNeighbours(board, p) : ~assigned(board[e.at]) =>
           /\ board[e.at].domain \subseteq
                {w \in Digits : Related(e.dot, board[p].value, w)}
           /\ (e.dot = 2 /\ board[p].value \in {5, 7, 9}) => board[e.at].domain = {}

\* forward_check has just wiped out the cell across a black dot from a
\* cell that was assigned 5, 7 or 9
C8_Witness ==
  /\ pc = "undo"
  /\ ~Top.consistent
  /\ board[<<Top.ivar, Top.jvar>>].value \in {5, 7, 9}
  /\ \E e \in DotNeighbours(board, <<Top.ivar, Top.jvar>>) :
       /\ e.dot = 2
       /\ ~assigned(board[e.at])
       /\ board[e.at].domain = {}
       /\ \E n \in 1 .. Len(Top.original) :
            Top.original[n].pos = e.at /\ Top.original[n].dom # {}

(* C9: whenever a cell is unassigned, select_variable returns an          *)
(* unassigned cell whose domain size is the minimum over the unassigned    *)
(* cells, whose number of unassigned row, column and box peers is the      *)
(* maximum among the cells of that size, and which is the first such cell  *)
(* in row-major order; it is the cell the backtrack call then works on.    *)
DomainSize(b, p) == Cardinality(b[p].domain)

Degree(b, p) == Cardinality({q \in Peers(p) : ~assigned(b[q])})

RowMajorBefore(p, q) == p[1] < q[1] \/ (p[1] = q[1] /\ p[2] < q[2])

IsBestCell(b, s) ==
  /\ s \in Unassigned(b)
  /\ \A q \in Unassigned(b) : DomainSize(b, s) <= DomainSize(b, q)
  /\ LET ties == {q \in Unassigned(b) : DomainSize(b, q) = DomainSize(b, s)}
         deg == [q \in ties |-> Degree(b, q)]
     IN  \A q \in ties :
           /\ deg[s] >= deg[q]
           /\ (deg[q] = deg[s] /\ q # s) => RowMajorBefore(s, q)

\* C9: the cell select_variable returns, and the cell a call works on, is
\* the first cell in row-major order of minimum domain size and then
\* maximum degree
C9_SelectVariable ==
  /\ (pc = "enter" /\ Unassigned(board) # {}) =>
       IsBestCell(board, select_variable(board))
  /\ (pc = "loop" /\ Top.val = 0) => IsBestCell(board, <<Top.ivar, Top.jvar>>)

\* a call has selected its cell where another cell ties with it in size and
\* degree, and an earlier cell of the same size has a smaller degree
C9_Witness ==
  /\ pc = "loop"
  /\ Top.val = 0
  /\ LET s == <<Top.ivar, Top.jvar>>
     IN  /\ \E q \in Unassigned(board) \ {s} :
              /\ DomainSize(board, q) = DomainSize(board, s)
              /\ Degree(board, q) = Degree(board, s)
         /\ \E r \in Unassigned(board) :
              /\ DomainSize(board, r) = DomainSize(board, s)
              /\ Degree(board, r) < Degree(board, s)
              /\ RowMajorBefore(r, s)

(* C10: forward_check returns inconsistent exactly when its pruning        *)
(* leaves an unassigned row, column, box or dot neighbour of the assigned  *)
(* cell with an empty domain; it mutates nothing after the first such      *)
(* wipe-out; and its change record, also on failure, holds the domain      *)
(* before propagation of every cell whose domain it mutated.               *)

\* the prunings of forward_check for cell c with value v on board b, in the
\* order of the code: the unassigned row, column and box peers lose v, then
\* the unassigned cells across the up, down, left and right dots keep only
\* the digits related to v
Prunings(b, c, v) ==
  LET peers == SelectSeq(PeerLoops(c[1], c[2]), LAMBDA q : ~assigned(b[q]))
      dots == SelectSeq(DotEdges(b, c[1], c[2]),
                        LAMBDA e : e.dot # 0 /\ ~assigned(b[e.at]))
  IN  [n \in 1 .. Len(peers) |-> [at |-> peers[n], keep |-> Digits \ {v}]]
      \o [n \in 1 .. Len(dots) |->
            [at |-> dots[n].at, keep |-> {w \in Digits : Related(dots[n].dot, v, w)}]]

\* the domain of q once the first k prunings are done
DomainAfter(b, ops, k, q) ==
  {d \in b[q].domain : \A n \in 1 .. k : ops[n].at = q => d \in ops[n].keep}

\* (each \A over a one-element set names a value of the step)
C10_ForwardCheckStep ==
  (pc = "loop" /\ Len(stack') = Len(stack) /\ pc' \in {"enter", "undo"}) =>
    \A c \in {<<Top.ivar, Top.jvar>>} :
    \A v \in {board'[c].value} :
    \A ops \in {Prunings([board EXCEPT ![c].value = v], c, v)} :
    \A wipes \in {{k \in 1 .. Len(ops) : DomainAfter(board, ops, k, ops[k].at) = {}}} :
    \A done \in {IF wipes = {} THEN Len(ops)
                 ELSE CHOOSE k \in wipes : \A m \in wipes : k <= m} :
    \A fc \in {stack'[Len(stack')]} :
      /\ fc.consistent = (wipes = {})
      /\ fc.consistent =
           ~(\E n \in 1 .. Len(ops) : board'[ops[n].at].domain = {})
      /\ \A q \in Pos : board'[q].domain = DomainAfter(board, ops, done, q)
      /\ \A q \in Pos : board'[q].domain # board[q].domain =>
           \E n \in 1 .. Len(fc.original) :
             fc.original[n].pos = q /\ fc.original[n].dom = board[q].domain

\* C10: every forward_check step of the search is inconsistent exactly on a
\* wipe-out, leaves the domains as they are at the first wipe-out and
\* records the earlier domain of every cell it changed
C10_ForwardCheck == [][C10_ForwardCheckStep]_vars

\* forward_check has just failed: a cell it pruned before the wipe-out is
\* left with candidates, and a recorded cell after the wipe-out still holds
\* the assigned value
C10_Witness ==
  /\ pc = "undo"
  /\ ~Top.consistent
  /\ \E a, b \in 1 .. Len(Top.original) :
       /\ board[Top.original[a].pos].domain # Top.original[a].dom
       /\ board[Top.original[a].pos].domain # {}
       /\ Top.val \in board[Top.original[b].pos].domain

(* C11: the search never assigns a value while an unassigned cell has an    *)
(* empty domain: a call that finds one has selected a cell without         *)
(* candidates and tries nothing, and a call below the root is entered only *)
(* with every unassigned cell holding a candidate.                         *)
EmptyCells(b) == {p \in Unassigned(b) : b[p].domain = {}}

\* C11: with an empty unassigned domain the call's loop has no value to
\* try, before it and after it; a nested call starts without such a domain
C11_NoAssignmentOnEmptyDomain ==
  /\ (pc = "loop" /\ EmptyCells(board) # {}) =>
       /\ Top.val = 0
       /\ next_val(board[<<Top.ivar, Top.jvar>>].domain, Top.val) = 0
  /\ (pc = "enter" /\ stack # <<>>) => EmptyCells(board) = {}
  /\ pc = "undo" => assigned(board[<<Top.ivar, Top.jvar>>])

\* the root call has selected its cell right after a sweep that left one
\* cell without candidates and another with several
C11_Witness ==
  /\ pc = "loop"
  /\ Len(stack) = 1
  /\ EmptyCells(board) # {}
  /\ \E p \in Unassigned(board) : Cardinality(board[p].domain) >= 2

(* C12: at each choice point the candidates of the selected cell are tried *)
(* in strictly increasing order, each at most once, and a larger one only  *)
(* after every smaller one has failed and been rolled back with the cell   *)
(* reset to unassigned.                                                    *)

\* a step of the value loop: the cell is unassigned, the value tried is the
\* least candidate above the last one tried, and the record of the last
\* forward_check is restored on the board
C12_TryStep ==
  (pc = "loop" /\ Len(stack') = Len(stack) /\ pc' \in {"enter", "undo"}) =>
    \A c \in {<<Top.ivar, Top.jvar>>} :
    \A v \in {stack'[Len(stack')].val} :
      /\ ~assigned(board[c])
      /\ board'[c].value = v
      /\ v \in board[c].domain
      /\ v > Top.val
      /\ \A d \in board[c].domain : d < v => d <= Top.val
      /\ Top.val # 0 =>
           \A n \in 1 .. Len(Top.original) :
             board[Top.original[n].pos].domain = Top.original[n].dom

\* an open call keeps its cell, the candidates of that cell stay as they
\* are, and its loop value never goes back
C12_OpenCalls ==
  \A n \in 1 .. Len(stack) :
    n <= Len(stack') =>
      /\ stack'[n].ivar = stack[n].ivar
      /\ stack'[n].jvar = stack[n].jvar
      /\ stack'[n].val >= stack[n].val
      /\ board'[<<stack[n].ivar, stack[n].jvar>>].domain =
           board[<<stack[n].ivar, stack[n].jvar>>].domain

\* C12: every step keeps the open calls' cells, candidates and value order,
\* and every value tried is the next candidate in increasing order, tried on
\* the rolled-back board
C12_IncreasingValues == [][C12_TryStep /\ C12_OpenCalls]_vars

\* a nested call has just tried a candidate with success after a smaller
\* candidate of the cell was tried and undone
C12_Witness ==
  /\ pc = "enter"
  /\ Len(stack) >= 2
  /\ \E d \in board[<<Top.ivar, Top.jvar>>].domain : d < Top.val

(* C13: at entry to every backtrack call the domain of each unassigned     *)
(* cell is exactly the set of digits consistent with the assigned cells:   *)
(* not held by an assigned cell of its row, column or box, and related to  *)
(* every assigned cell across a dot.                                       *)
C13_DomainExact ==
  pc = "enter" =>
    \A p \in Unassigned(board) : board[p].domain = ConsistentDigits(board, p)

\* a nested entry reached after an undo, with an unassigned cell whose
\* candidates are cut down by an assigned cell across a dot
C13_Witness ==
  /\ pc = "enter"
  /\ Len(stack) >= 2
  /\ \E n \in 1 .. Len(stack) :
       \E d \in board[<<stack[n].ivar, stack[n].jvar>>].domain : d < stack[n].val
  /\ \E p \in Unassigned(board) :
       /\ board[p].domain # {}
       /\ \E e \in DotNeighbours(board, p) :
            /\ assigned(board[e.at])
            /\ \E d \in Digits :
                 /\ \A q \in Peers(p) : assigned(board[q]) => board[q].value # d
                 /\ d \notin board[p].domain

(* C14: the outcome of backtracking_search does not depend on the         *)
(* variable ordering: with any rule that returns some unassigned cell in   *)
(* place of select_variable the search ends in success exactly when the    *)
(* search with the MRV and degree ordering does, for every input grid.     *)
C14_OrderingIndependent ==
  pc = "done" => (result = "board") = backtracking_search(start).result

\* a search that took its cells in another order than select_variable,
\* backtracked, and ended
C14_Witness ==
  /\ pc = "loop"
  /\ Top.val # 0
  /\ <<Top.ivar, Top.jvar>> # select_variable(board)
  /\ backtracking_search(start).result

(* C15: forward_check changes only the domains of unassigned cells that   *)
(* share a row, column or box with the just-assigned cell; every value,    *)
(* every dot field, the domain of every assigned cell (the just-assigned   *)
(* one too) and every domain outside that row, column and box stay.        *)

\* what forward_check for value v in cell c leaves of the board b0 it is
\* called on
FrameKept(b0, c, after) ==
  \A q \in Pos :
    /\ after[q].value = b0[q].value
    /\ after[q].up = b0[q].up
    /\ after[q].down = b0[q].down
    /\ after[q].left = b0[q].left
    /\ after[q].right = b0[q].right
    /\ after[q].domain # b0[q].domain =>
         /\ ~assigned(b0[q])
         /\ q \in Peers(c)

\* C15: for every candidate of the selected cell of a board at the value
\* loop the frame is kept, and during the search a clue cell and a cell
\* outside the row, column and box of every open call's cell keep the domain
\* they had after the sweep
C15_ForwardCheckFrame ==
  /\ pc = "loop" =>
       \A c \in {<<Top.ivar, Top.jvar>>} : \A v \in board[c].domain :
         FrameKept([board EXCEPT ![c].value = v], c, AssignAndCheck(board, c, v).board)
  /\ pc \in {"enter", "loop", "undo"} =>
       \A q \in Pos :
         (assigned(start[q]) \/
          \A n \in 1 .. Len(stack) : q \notin Peers(<<stack[n].ivar, stack[n].jvar>>))
           => board[q].domain = start[q].domain

\* the call is about to try a value whose forward_check prunes several
\* cells, with an assigned cell across a dot of the cell and unassigned
\* cells outside its row, column and box
C15_Witness ==
  /\ pc = "loop"
  /\ \E v \in board[<<Top.ivar, Top.jvar>>].domain :
       LET c == <<Top.ivar, Top.jvar>>
           fc == AssignAndCheck(board, c, v)
       IN  /\ v > Top.val
           /\ Cardinality({q \in Pos : fc.board[q].domain # board[q].domain}) >= 2
           /\ \E e \in DotNeighbours(board, c) :
                /\ assigned(board[e.at])
                /\ \E d \in board[e.at].domain : ~Related(e.dot, v, d)
           /\ Unassigned(board) \ (Peers(c) \cup {c}) # {}

(* C16: when backtracking_search returns False the grid is as it was when *)
(* the search started: the cells unassigned then are unassigned again and  *)
(* every domain is the domain after the initial sweep.                     *)
C16_FailureRestoresStart ==
  (pc = "done" /\ result = "False") =>
    /\ \A p \in Pos : board[p].value = start[p].value
    /\ \A p \in Pos : board[p].domain = start[p].domain
    /\ board = start

\* a search that ended in failure after assigning values: several cells
\* were open with candidates, and a dot lies between two of them
C16_Witness ==
  /\ pc = "done"
  /\ result = "False"
  /\ EmptyCells(start) = {}
  /\ Cardinality(Unassigned(start)) >= 2
  /\ \E p \in Unassigned(start) :
       \E e \in DotNeighbours(start, p) : ~assigned(start[e.at])

(* C17: throughout the search the value of every given cell stays, so a   *)
(* grid returned as solved has every clue at its place with its digit,     *)
(* and every cell of it holds a digit in 1..9.                             *)
C17_CluesKept ==
  /\ \A p \in Pos : assigned(start[p]) => board[p].value = start[p].value
  /\ (pc \in {"unwind", "done"} /\ result = "board") =>
       \A p \in Pos : board[p].value \in Digits

\* a grid returned as solved by a search that filled several cells, one of
\* them with a choice of candidates
C17_Witness ==
  /\ pc = "done"
  /\ result = "board"
  /\ Cardinality(Unassigned(start)) >= 2
  /\ \E p \in Unassigned(start) : Cardinality(start[p].domain) >= 2
  /\ \E p \in Pos : assigned(start[p])

\* the open calls whose cell holds the value the call has assigned
HoldingFrames == {n \in 1 .. Len(stack) : assigned(board[<<stack[n].ivar, stack[n].jvar>>])}

\* the cells the search has assigned: unassigned on the board parse_file
\* returned, assigned now
AssignedBySearch == {p \in Unassigned(start) : assigned(board[p])}

FramesMatchAssigned ==
  /\ Cardinality(HoldingFrames) = Cardinality(AssignedBySearch)
  /\ {<<stack[n].ivar, stack[n].jvar>> : n \in HoldingFrames} = AssignedBySearch

DepthBound ==
  /\ Len(stack) <= Cardinality(Unassigned(start))
  /\ Len(stack) <= NUM_ROWS * NUM_COLS

(* C18: in every reachable state the number of active backtrack frames     *)
(* holding a tentative assignment equals the number of cells assigned by   *)
(* the search, so the depth never exceeds the number of cells unassigned   *)
(* at the start (at most 81).                                              *)
C18_FramesEqualAssigned == FramesMatchAssigned /\ DepthBound

(* C18, as amended: the frames holding an assignment are as many as the    *)
(* cells assigned by the search in every state where the search has not    *)
(* returned the board (while the board is returned the frames go and the   *)
(* assignments stay); the depth bound holds in every state.                *)
C18_FramesEqualAssignedUntilSolved ==
  /\ result # "board" => FramesMatchAssigned
  /\ DepthBound

\* the deepest call of a search that has backtracked: every cell unassigned
\* at the start is assigned, one frame for each
C18_Witness ==
  /\ pc = "enter"
  /\ result = "none"
  /\ Len(stack) = Cardinality(Unassigned(start))
  /\ Len(stack) >= 2
  /\ \E n \in 1 .. Len(stack) :
       \E d \in board[<<stack[n].ivar, stack[n].jvar>>].domain : d < stack[n].val

=============================================================================
